---- MODULE Spec2Model ----
(***************************************************************************)
(* Model of src/src/palette_generator.py (BlackRoad Studio colour palette  *)
(* generator): hex parsing, HLS colour operations, harmony generation,     *)
(* the WCAG audit, the CSS export and the SQLite palette store.            *)
(*                                                                         *)
(* Python strings are sequences of one-character strings, so that slicing, *)
(* lstrip, join, split, lower and title are computed as CPython computes   *)
(* them.  Python floats are exact rationals <<n, d>>: IEEE-754 rounding is *)
(* not modelled, so a channel that CPython truncates one unit low because  *)
(* a product fell an ulp short of an integer (rotate_hue("#3b82f6", 0) is  *)
(* "#3a81f6") keeps its exact value here.  No property below reads the     *)
(* low-order bits of a computed channel.                                   *)
(***************************************************************************)
EXTENDS Integers, Sequences, FiniteSets, TLC

VARIABLES store, call, result, lastOp

vars == <<store, call, result, lastOp>>

(***************************************************************************)
(* Bounds of the model.                                                    *)
(***************************************************************************)
\* longest body (after the leading '#'s) of an input string
MaxLen == 6
\* most leading '#' characters of an input string
MaxHashes == 1
\* palette identifiers are 1..MaxIds
MaxIds == 2
\* creation times are 1..MaxTime
MaxTime == 2
\* largest step count passed to the scale and gradient generators
MaxSteps == 4
\* most swatches of a directly constructed palette
MaxSwatches == 3
\* largest contrast ratio passed to wcag_grade, in hundredths
MaxRatio == 2100

(***************************************************************************)
(* Characters and Python string methods.                                   *)
(***************************************************************************)
HexDigits == <<"0","1","2","3","4","5","6","7","8","9","a","b","c","d","e","f">>

UpperHexDigits == <<"0","1","2","3","4","5","6","7","8","9","A","B","C","D","E","F">>

LowerCase == <<"a","b","c","d","e","f","g","h","i","j","k","l","m",
               "n","o","p","q","r","s","t","u","v","w","x","y","z">>

UpperCase == <<"A","B","C","D","E","F","G","H","I","J","K","L","M",
               "N","O","P","Q","R","S","T","U","V","W","X","Y","Z">>

Whitespace == {" "}

Range(s) == {s[i] : i \in 1..Len(s)}

IndexOf(s, c) == CHOOSE i \in 1..Len(s) : s[i] = c

Min(a, b) == IF a <= b THEN a ELSE b

Max(a, b) == IF a >= b THEN a ELSE b

\* str.lower() and str.upper() on one character
LowerChar(c) == IF c \in Range(UpperCase) THEN LowerCase[IndexOf(UpperCase, c)] ELSE c

UpperChar(c) == IF c \in Range(LowerCase) THEN UpperCase[IndexOf(LowerCase, c)] ELSE c

IsCased(c) == c \in Range(LowerCase) \cup Range(UpperCase)

\* str.lower()
Lower(s) == [i \in 1..Len(s) |-> LowerChar(s[i])]

\* str.title(): a cased character is upper-cased after an uncased one (or at
\* the start) and lower-cased after a cased one
Title(s) ==
  [i \in 1..Len(s) |->
     IF i = 1 \/ ~IsCased(s[i - 1]) THEN UpperChar(s[i]) ELSE LowerChar(s[i])]

\* str.replace(old, new) for one-character old and new
Replace(s, old, new) == [i \in 1..Len(s) |-> IF s[i] = old THEN new ELSE s[i]]

\* the Python slice s[i:j] for 0 <= i <= j
Slice(s, i, j) == SubSeq(s, i + 1, Min(j, Len(s)))

\* str.lstrip(chars) and str.rstrip(chars)
RECURSIVE LStrip(_, _)
LStrip(s, chars) ==
  IF s # <<>> /\ Head(s) \in chars THEN LStrip(Tail(s), chars) ELSE s

RECURSIVE RStrip(_, _)
RStrip(s, chars) ==
  IF s # <<>> /\ s[Len(s)] \in chars THEN RStrip(SubSeq(s, 1, Len(s) - 1), chars) ELSE s

\* str(n) for an integer n >= 0
RECURSIVE Str(_)
Str(n) == IF n < 10 THEN <<HexDigits[n + 1]>> ELSE Str(n \div 10) \o <<HexDigits[(n % 10) + 1]>>

\* sep.join(parts)
RECURSIVE Join(_, _)
Join(parts, sep) ==
  IF parts = <<>> THEN <<>>
  ELSE IF Len(parts) = 1 THEN parts[1]
  ELSE parts[1] \o sep \o Join(Tail(parts), sep)

\* s.split(sep) for a one-character sep: one more part than separators
RECURSIVE Split(_, _)
Split(s, sep) ==
  IF \A i \in 1..Len(s) : s[i] # sep THEN <<s>>
  ELSE LET k == CHOOSE i \in 1..Len(s) : s[i] = sep /\ \A j \in 1..(i - 1) : s[j] # sep
       IN  <<SubSeq(s, 1, k - 1)>> \o Split(SubSeq(s, k + 1, Len(s)), sep)

\* all sequences over alphabet of length at most n
SeqsUpTo(alphabet, n) == UNION {[1..k -> alphabet] : k \in 0..n}

(***************************************************************************)
(* Outcomes of a call.                                                     *)
(***************************************************************************)
Pending == [status |-> "pending"]

Returned(v) == [status |-> "returned", value |-> v]

Raised(e) == [status |-> "raised", exc |-> e]

\* evaluation continues with the value of c unless c raised, in which case
\* the exception propagates
Then(c, F(_)) == IF c.status = "raised" THEN c ELSE F(c.value)

(***************************************************************************)
(* int(text, 16) as CPython parses it: surrounding whitespace is stripped, *)
(* one sign and one 0x/0X prefix are accepted, and the digits may be       *)
(* separated by single underscores.                                        *)
(***************************************************************************)
HexChars == Range(HexDigits) \cup Range(UpperHexDigits)

HexVal(c) == IndexOf(HexDigits, LowerChar(c)) - 1

RECURSIVE DigitsValue(_, _)
DigitsValue(s, acc) ==
  IF s = <<>> THEN acc
  ELSE IF Head(s) = "_" THEN DigitsValue(Tail(s), acc)
  ELSE DigitsValue(Tail(s), acc * 16 + HexVal(Head(s)))

\* digits with single underscores between them; a leading underscore only
\* after a base prefix
ValidDigits(s, afterPrefix) ==
  /\ s # <<>>
  /\ \A i \in 1..Len(s) : s[i] \in HexChars \cup {"_"}
  /\ s[Len(s)] # "_"
  /\ (s[1] = "_" => afterPrefix)
  /\ \A i \in 1..(Len(s) - 1) : ~(s[i] = "_" /\ s[i + 1] = "_")

\* the digits after the sign: an optional 0x/0X prefix, then the digits
Unsigned16(u) ==
  LET prefix == Len(u) >= 2 /\ u[1] = "0" /\ u[2] \in {"x", "X"}
      body   == IF prefix THEN SubSeq(u, 3, Len(u)) ELSE u
  IN  IF ValidDigits(body, prefix)
      THEN [ok |-> TRUE, val |-> DigitsValue(body, 0)]
      ELSE [ok |-> FALSE, val |-> 0]

WithSign(sign, parsed) == [ok |-> parsed.ok, val |-> sign * parsed.val]

Signed16(t) ==
  IF t # <<>> /\ t[1] \in {"+", "-"}
  THEN WithSign(IF t[1] = "-" THEN 0 - 1 ELSE 1, Unsigned16(Tail(t)))
  ELSE Unsigned16(t)

PyInt16(text) == Signed16(RStrip(LStrip(text, Whitespace), Whitespace))

(***************************************************************************)
(* Low-level colour math.                                                  *)
(***************************************************************************)
\* the tuple of the three parsed channels; a failed parse raises ValueError
Channels(r, g, b) ==
  IF r.ok /\ g.ok /\ b.ok
  THEN Returned(<<r.val, g.val, b.val>>)
  ELSE Raised("ValueError")

\* "".join(c*2 for c in h) when len(h) == 3
Expand(h) == IF Len(h) = 3 THEN <<h[1], h[1], h[2], h[2], h[3], h[3]>> ELSE h

SliceChannels(h) ==
  Channels(PyInt16(Slice(h, 0, 2)), PyInt16(Slice(h, 2, 4)), PyInt16(Slice(h, 4, 6)))

hex_to_rgb(hex_color) == SliceChannels(Expand(LStrip(hex_color, {"#"})))

\* f"{v:02x}" for 0 <= v <= 255
Hex2(v) == <<HexDigits[(v \div 16) + 1], HexDigits[(v % 16) + 1]>>

Clamp255(v) == Max(0, Min(255, v))

rgb_to_hex(r, g, b) ==
  <<"#">> \o Hex2(Clamp255(r)) \o Hex2(Clamp255(g)) \o Hex2(Clamp255(b))

(***************************************************************************)
(* Python floats as exact rationals <<n, d>> in lowest terms, d > 0.       *)
(***************************************************************************)
Abs(x) == IF x < 0 THEN 0 - x ELSE x

RECURSIVE GCD(_, _)
GCD(a, b) == IF b = 0 THEN a ELSE GCD(b, a % b)

Rat(n, d) ==
  LET g == GCD(Abs(n), Abs(d))
      s == IF d < 0 THEN 0 - 1 ELSE 1
  IN  <<s * (n \div g), s * (d \div g)>>

RInt(n) == <<n, 1>>

RAdd(a, b) ==
  LET g == GCD(a[2], b[2])
  IN  Rat(a[1] * (b[2] \div g) + b[1] * (a[2] \div g), (a[2] \div g) * b[2])

RNeg(a) == <<0 - a[1], a[2]>>

RSub(a, b) == RAdd(a, RNeg(b))

\* cross-cancelled, so no intermediate product exceeds the result
RMul(a, b) ==
  LET g1 == GCD(Abs(a[1]), b[2])
      g2 == GCD(Abs(b[1]), a[2])
  IN  <<(a[1] \div g1) * (b[1] \div g2), (a[2] \div g2) * (b[2] \div g1)>>

\* b # 0
RDiv(a, b) == RMul(a, IF b[1] < 0 THEN <<0 - b[2], 0 - b[1]>> ELSE <<b[2], b[1]>>)

RLe(a, b) == a[1] * b[2] <= b[1] * a[2]

RLt(a, b) == a[1] * b[2] < b[1] * a[2]

RMax(a, b) == IF RLt(a, b) THEN b ELSE a

RMin(a, b) == IF RLt(b, a) THEN b ELSE a

\* math.floor
RFloor(a) == a[1] \div a[2]

\* int(x): truncation toward zero
RTrunc(a) == IF a[1] >= 0 THEN a[1] \div a[2] ELSE 0 - ((0 - a[1]) \div a[2])

\* x % m for m > 0: the result has the sign of m
RMod(a, m) == RSub(a, RMul(RInt(RFloor(RDiv(a, m))), m))

(***************************************************************************)
(* colorsys.rgb_to_hls and colorsys.hls_to_rgb (CPython 3.11), which the   *)
(* module imports; h, l, s as Python returns them (h in [0, 1)).  The      *)
(* division by sumc or by 2 - sumc raises ZeroDivisionError when it is 0.  *)
(***************************************************************************)
ONE_THIRD == <<1, 3>>

ONE_SIXTH == <<1, 6>>

TWO_THIRD == <<2, 3>>

HALF == <<1, 2>>

\* the hue of a chromatic colour, from rc, gc, bc
HueOf(r, g, maxc, rc, gc, bc) ==
  IF r = maxc THEN RSub(bc, gc)
  ELSE IF g = maxc THEN RSub(RAdd(RInt(2), rc), bc)
  ELSE RSub(RAdd(RInt(4), gc), rc)

\* the chromatic branch: den is sumc or 2.0 - sumc
Chromatic(r, g, b, maxc, rangec, l, den) ==
  IF den[1] = 0 THEN Raised("ZeroDivisionError")
  ELSE Returned(<<RMod(RDiv(HueOf(r, g, maxc,
                                  RDiv(RSub(maxc, r), rangec),
                                  RDiv(RSub(maxc, g), rangec),
                                  RDiv(RSub(maxc, b), rangec)), RInt(6)), RInt(1)),
                  l, RDiv(rangec, den)>>)

Extremes(r, g, b, maxc, minc, sumc, l) ==
  IF minc = maxc THEN Returned(<<RInt(0), l, RInt(0)>>)
  ELSE Chromatic(r, g, b, maxc, RSub(maxc, minc), l,
                 IF RLe(l, HALF) THEN sumc ELSE RSub(RInt(2), sumc))

Lightness(r, g, b, maxc, minc, sumc) ==
  Extremes(r, g, b, maxc, minc, sumc, RDiv(sumc, RInt(2)))

rgb_to_hls(r, g, b) ==
  Lightness(r, g, b, RMax(r, RMax(g, b)), RMin(r, RMin(g, b)),
            RAdd(RMax(r, RMax(g, b)), RMin(r, RMin(g, b))))

Hue01(hue, m1, m2) ==
  IF RLt(hue, ONE_SIXTH)
    THEN RAdd(m1, RMul(RMul(RSub(m2, m1), hue), RInt(6)))
  ELSE IF RLt(hue, HALF) THEN m2
  ELSE IF RLt(hue, TWO_THIRD)
    THEN RAdd(m1, RMul(RMul(RSub(m2, m1), RSub(TWO_THIRD, hue)), RInt(6)))
  ELSE m1

_v(m1, m2, hue) == Hue01(RMod(hue, RInt(1)), m1, m2)

Thirds(h, m1, m2) ==
  <<_v(m1, m2, RAdd(h, ONE_THIRD)), _v(m1, m2, h), _v(m1, m2, RSub(h, ONE_THIRD))>>

M1(h, l, m2) == Thirds(h, RSub(RMul(RInt(2), l), m2), m2)

hls_to_rgb(h, l, s) ==
  IF s[1] = 0 THEN <<l, l, l>>
  ELSE M1(h, l, IF RLe(l, HALF) THEN RMul(l, RAdd(RInt(1), s))
                ELSE RSub(RAdd(l, s), RMul(l, s)))

\* int(x * 255) of one channel
Scaled(x) == RTrunc(RMul(x, RInt(255)))

ScaledHex(c) == rgb_to_hex(Scaled(c[1]), Scaled(c[2]), Scaled(c[3]))

\* hls_hex: h in degrees
hls_hex(h, l, s) == ScaledHex(hls_to_rgb(RDiv(h, RInt(360)), l, s))

Unit(c) == Rat(c, 255)

\* the (h, l, s) of a hex colour, as the first two lines of every colour
\* operation compute it; an exception of either call propagates
HlsOf(hex_color) ==
  Then(hex_to_rgb(hex_color), LAMBDA c : rgb_to_hls(Unit(c[1]), Unit(c[2]), Unit(c[3])))

Clamp01(x) == RMax(RInt(0), RMin(RInt(1), x))

Degrees(h) == RMul(h, RInt(360))

rotate_hue(hex_color, degrees) ==
  Then(HlsOf(hex_color),
       LAMBDA c : Returned(hls_hex(RMod(RAdd(Degrees(c[1]), degrees), RInt(360)),
                                   c[2], c[3])))

adjust_lightness(hex_color, delta) ==
  Then(HlsOf(hex_color),
       LAMBDA c : Returned(hls_hex(Degrees(c[1]), Clamp01(RAdd(c[2], delta)), c[3])))

(***************************************************************************)
(* String literals of the source.                                          *)
(***************************************************************************)
COMPLEMENTARY == <<"c","o","m","p","l","e","m","e","n","t","a","r","y">>

TRIADIC == <<"t","r","i","a","d","i","c">>

ANALOGOUS == <<"a","n","a","l","o","g","o","u","s">>

MONOCHROMATIC == <<"m","o","n","o","c","h","r","o","m","a","t","i","c">>

SPLIT_COMPLEMENTARY == <<"s","p","l","i","t","-","c","o","m","p","l","e","m","e","n","t","a","r","y">>

TETRADIC == <<"t","e","t","r","a","d","i","c">>

PRIMARY == <<"p","r","i","m","a","r","y">>

SECONDARY == <<"s","e","c","o","n","d","a","r","y">>

ACCENT == <<"a","c","c","e","n","t">>

QUATERNARY == <<"q","u","a","t","e","r","n","a","r","y">>

BACKGROUND == <<"b","a","c","k","g","r","o","u","n","d">>

SURFACE == <<"s","u","r","f","a","c","e">>

MUTED == <<"m","u","t","e","d">>

TEXT == <<"t","e","x","t">>

COLOR == <<"c","o","l","o","r">>

LIGHT == <<"l","i","g","h","t">>

DARK == <<"d","a","r","k">>

PALETTE_SUFFIX == <<" ","P","a","l","e","t","t","e">>

(***************************************************************************)
(* Data models.                                                            *)
(***************************************************************************)
\* round(x * scale) to the nearest integer, ties to even: round(x, ndigits)
\* in units of 10^-ndigits
HalfEven(y) ==
  LET f   == RFloor(y)
      rem == RSub(y, RInt(RFloor(y)))
  IN  IF RLt(rem, HALF) THEN f
      ELSE IF RLt(HALF, rem) THEN f + 1
      ELSE IF f % 2 = 0 THEN f ELSE f + 1

RRound(x, scale) == HalfEven(RMul(x, RInt(scale)))

\* ColorSwatch(hex, name, role): __post_init__ parses hex and derives hue
\* (hundredths of a degree), lightness and saturation (ten-thousandths)
ColorSwatch(hex, name, role) ==
  Then(HlsOf(hex),
       LAMBDA c : Returned([hex        |-> hex,
                            name       |-> name,
                            role       |-> role,
                            hue        |-> RRound(Degrees(c[1]), 100),
                            lightness  |-> RRound(c[2], 10000),
                            saturation |-> RRound(c[3], 10000)]))

\* Palette(...): the dataclass constructor
Palette(id, name, base_color, harmony, colors, tags, created_at, description) ==
  [id |-> id, name |-> name, base_color |-> base_color, harmony |-> harmony,
   colors |-> colors, tags |-> tags, created_at |-> created_at,
   description |-> description]

\* a list built element by element: the first exception propagates
Collect(rs) ==
  IF \E i \in 1..Len(rs) : rs[i].status = "raised"
  THEN rs[CHOOSE i \in 1..Len(rs) :
            rs[i].status = "raised" /\ \A j \in 1..(i - 1) : rs[j].status # "raised"]
  ELSE Returned([i \in 1..Len(rs) |-> rs[i].value])

(***************************************************************************)
(* Blends and scales.                                                      *)
(***************************************************************************)
\* int(x + (y - x) * t) of one channel
Mix(x, y, t) == RTrunc(RAdd(RInt(x), RMul(RInt(y - x), t)))

Blend(a, b, t) ==
  rgb_to_hex(Mix(a[1], b[1], t), Mix(a[2], b[2], t), Mix(a[3], b[3], t))

\* the blend with the ratio used as given
blend_colors_unclamped(hex1, hex2, ratio) ==
  Then(hex_to_rgb(hex1),
       LAMBDA a : Then(hex_to_rgb(hex2),
                       LAMBDA b : Returned(Blend(a, b, ratio))))

blend_colors(hex1, hex2, ratio) ==
  Then(hex_to_rgb(hex1),
       LAMBDA a : Then(hex_to_rgb(hex2),
                       LAMBDA b : Returned(Blend(a, b, Clamp01(ratio)))))

\* 0.95 - i * (0.9 / (steps - 1))
Level(i, steps) == RSub(<<19, 20>>, RMul(RInt(i), RDiv(<<9, 10>>, RInt(steps - 1))))

\* range(steps) is empty for steps <= 0, so the division by steps - 1 is
\* evaluated only for steps >= 1
generate_tints_shades(hex_color, steps) ==
  Then(HlsOf(hex_color),
       LAMBDA c : IF steps <= 0 THEN Returned(<<>>)
                  ELSE IF steps - 1 = 0 THEN Raised("ZeroDivisionError")
                  ELSE Returned([k \in 1..steps |->
                                   hls_hex(Degrees(c[1]), Level(k - 1, steps), c[3])]))

generate_gradient_stops(hex1, hex2, stops) ==
  IF stops <= 0 THEN Returned(<<>>)
  ELSE IF stops - 1 = 0 THEN Raised("ZeroDivisionError")
  ELSE Collect([k \in 1..stops |-> blend_colors(hex1, hex2, Rat(k - 1, stops - 1))])

(***************************************************************************)
(* Harmony generators.                                                     *)
(***************************************************************************)
_HARMONY_ANGLES ==
  (COMPLEMENTARY :> <<0, 180>>) @@ (TRIADIC :> <<0, 120, 240>>) @@
  (ANALOGOUS :> <<0, 30, 60>>) @@ (MONOCHROMATIC :> <<>>) @@
  (SPLIT_COMPLEMENTARY :> <<0, 150, 210>>) @@ (TETRADIC :> <<0, 90, 180, 270>>)

_ROLES == <<PRIMARY, SECONDARY, ACCENT, QUATERNARY, BACKGROUND, SURFACE, MUTED, TEXT>>

\* the monochromatic steps: target lightness and role
MONO_STEPS ==
  << <<<<23, 25>>, BACKGROUND>>, <<<<3, 4>>, SURFACE>>, <<<<11, 20>>, PRIMARY>>,
     <<<<7, 20>>, SECONDARY>>, <<<<3, 20>>, TEXT>> >>

\* ColorSwatch(hex=c, ...) for a colour c that a colour operation returned
SwatchOf(c, name, role) == Then(c, LAMBDA hex : ColorSwatch(hex, name, role))

\* f"{name or 'color'}-{suffix}"
Label(name, suffix) == (IF name # <<>> THEN name ELSE COLOR) \o <<"-">> \o suffix

\* the swatches of the monochromatic branch
Mono(full, name, l) ==
  [i \in 1..Len(MONO_STEPS) |->
     SwatchOf(adjust_lightness(full, RSub(MONO_STEPS[i][1], l)),
              Label(name, Str(i)), MONO_STEPS[i][2])]

\* the other branch with the light variant forgotten
RotatedWithoutLight(full, name, angles) ==
  [i \in 1..Len(angles) |->
     SwatchOf(rotate_hue(full, RInt(angles[i])), Label(name, Str(i)),
              IF i - 1 < Len(_ROLES) THEN _ROLES[i] ELSE COLOR \o <<"-">> \o Str(i))]
  \o <<SwatchOf(adjust_lightness(full, <<0 - 19, 50>>), Label(name, DARK), TEXT)>>

\* the other branch with the dark variant forgotten
RotatedWithoutDark(full, name, angles) ==
  [i \in 1..Len(angles) |->
     SwatchOf(rotate_hue(full, RInt(angles[i])), Label(name, Str(i)),
              IF i - 1 < Len(_ROLES) THEN _ROLES[i] ELSE COLOR \o <<"-">> \o Str(i))]
  \o <<SwatchOf(adjust_lightness(full, <<19, 50>>), Label(name, LIGHT), BACKGROUND)>>

\* the swatches of the other branch: one per angle, then light and dark
Rotated(full, name, angles) ==
  [i \in 1..Len(angles) |->
     SwatchOf(rotate_hue(full, RInt(angles[i])), Label(name, Str(i)),
              IF i - 1 < Len(_ROLES) THEN _ROLES[i] ELSE COLOR \o <<"-">> \o Str(i))]
  \o <<SwatchOf(adjust_lightness(full, <<19, 50>>), Label(name, LIGHT), BACKGROUND),
       SwatchOf(adjust_lightness(full, <<0 - 19, 50>>), Label(name, DARK), TEXT)>>

\* generate(base_hex, harmony_type, name); uid and now are what uuid.uuid4()
\* and datetime.utcnow() return during the call
generate(base_hex, harmony_type, name, uid, now) ==
  LET h_str == Expand(LStrip(base_hex, {"#"}))
      full  == <<"#">> \o Expand(LStrip(base_hex, {"#"}))
  IN  IF Len(h_str) # 6 THEN Raised("ValueError")
      ELSE IF harmony_type \notin DOMAIN _HARMONY_ANGLES THEN Raised("ValueError")
      ELSE Then(HlsOf(full),
             LAMBDA hls :
               Then(Collect(IF harmony_type = MONOCHROMATIC
                            THEN Mono(full, name, hls[2])
                            ELSE Rotated(full, name, _HARMONY_ANGLES[harmony_type])),
                    LAMBDA swatches :
                      Returned(Palette(uid,
                                       IF name # <<>> THEN name
                                       ELSE Title(harmony_type) \o PALETTE_SUFFIX,
                                       full, harmony_type, swatches, <<harmony_type>>,
                                       now, <<>>))))

(***************************************************************************)
(* WCAG accessibility.  Luminances are in units of 10^-7, contrast ratios  *)
(* in hundredths (the two decimals round(..., 2) keeps).                   *)
(***************************************************************************)
\* round(((c/255 + 0.055) / 1.055) ** 2.4 * 10^7) for the channel values
\* c = 0..255 (entry c + 1); the power is not rational, so the values are
\* tabulated.  Entries for c <= 10 are those of the linear branch.
LINEARIZE_E7 ==
  <<
     0, 3035, 6071, 9106, 12141, 15176, 18212, 21247,
     24282, 27317, 30353, 33465, 36765, 40247, 43914, 47770,
     51815, 56054, 60488, 65121, 69954, 74990, 80232, 85681,
     91341, 97212, 103298, 109601, 116122, 122865, 129830, 137021,
     144438, 152085, 159963, 168074, 176420, 185002, 193824, 202886,
     212190, 221739, 231534, 241576, 251869, 262412, 273209, 284260,
     295568, 307134, 318960, 331048, 343398, 356013, 368895, 382044,
     395462, 409152, 423114, 437350, 451862, 466651, 481718, 497066,
     512695, 528606, 544803, 561285, 578054, 595112, 612461, 630100,
     648033, 666259, 684782, 703601, 722719, 742136, 761854, 781874,
     802198, 822827, 843762, 865005, 886556, 908417, 930590, 953075,
     975873, 998987, 1022417, 1046165, 1070231, 1094617, 1119324, 1144354,
     1169707, 1195384, 1221388, 1247718, 1274377, 1301365, 1328683, 1356333,
     1384316, 1412633, 1441285, 1470273, 1499598, 1529262, 1559265, 1589608,
     1620294, 1651322, 1682694, 1714411, 1746474, 1778884, 1811642, 1844750,
     1878208, 1912017, 1946178, 1980693, 2015563, 2050787, 2086369, 2122308,
     2158605, 2195262, 2232280, 2269659, 2307400, 2345506, 2383976, 2422811,
     2462013, 2501583, 2541521, 2581829, 2622507, 2663556, 2704978, 2746773,
     2788943, 2831487, 2874408, 2917706, 2961383, 3005438, 3049873, 3094689,
     3139887, 3185468, 3231432, 3277781, 3324515, 3371636, 3419144, 3467041,
     3515326, 3564001, 3613068, 3662526, 3712377, 3762621, 3813260, 3864294,
     3915725, 3967552, 4019778, 4072402, 4125426, 4178851, 4232677, 4286905,
     4341536, 4396572, 4452012, 4507858, 4564110, 4620770, 4677838, 4735315,
     4793202, 4851499, 4910208, 4969330, 5028865, 5088813, 5149177, 5209956,
     5271151, 5332764, 5394795, 5457245, 5520114, 5583404, 5647115, 5711248,
     5775804, 5840784, 5906188, 5972018, 6038273, 6104956, 6172066, 6239604,
     6307571, 6375969, 6444797, 6514056, 6583748, 6653873, 6724432, 6795425,
     6866853, 6938718, 7011019, 7083758, 7156935, 7230551, 7304607, 7379104,
     7454042, 7529422, 7605245, 7681511, 7758222, 7835378, 7912979, 7991027,
     8069523, 8148466, 8227858, 8307699, 8387990, 8468732, 8549926, 8631572,
     8713671, 8796224, 8879231, 8962694, 9046612, 9130987, 9215819, 9301109,
     9386857, 9473065, 9559734, 9646862, 9734453, 9822506, 9911021, 10000000 >>

\* _linearize(c) in units of 10^-7: c/255 <= 0.03928 exactly when c <= 10
_linearize(c) ==
  IF c <= 10 THEN RRound(Rat(c * 100, 255 * 1292), 10000000)
  ELSE LINEARIZE_E7[c + 1]

\* w/10000 * x without leaving 32 bits
Weighted(w, x) == (x \div 10000) * w + ((x % 10000) * w) \div 10000

Luminance(lin) == Weighted(2126, lin[1]) + Weighted(7152, lin[2]) + Weighted(722, lin[3])

relative_luminance(hex_color) ==
  Then(hex_to_rgb(hex_color),
       LAMBDA c : Returned(Luminance([i \in 1..3 |-> _linearize(c[i])])))

\* round((bright + 0.05) / (dark + 0.05), 2)
Ratio(bright, dark) == RRound(Rat(bright + 500000, dark + 500000), 100)

wcag_contrast_ratio(color1, color2) ==
  Then(relative_luminance(color1),
       LAMBDA l1 : Then(relative_luminance(color2),
                        LAMBDA l2 : Returned(Ratio(Max(l1, l2), Min(l1, l2)))))

\* the grade if the thresholds were open on the lower bound
wcag_grade_open(ratio) ==
  IF ratio > 700 THEN "AAA"
  ELSE IF ratio > 450 THEN "AA"
  ELSE IF ratio > 300 THEN "AA-Large"
  ELSE "Fail"

\* ratio in hundredths
wcag_grade(ratio) ==
  IF ratio >= 700 THEN "AAA"
  ELSE IF ratio >= 450 THEN "AA"
  ELSE IF ratio >= 300 THEN "AA-Large"
  ELSE "Fail"

text_roles == {TEXT, PRIMARY, SECONDARY, ACCENT}

bg_roles == {BACKGROUND, SURFACE, MUTED}

\* xs or ys, for lists
OrElse(xs, ys) == IF xs # <<>> THEN xs ELSE ys

IsTextRole(s) == s.role \in text_roles

IsBgRole(s) == s.role \in bg_roles

\* the foreground and background candidates of a11y_check
Foregrounds(palette) ==
  OrElse(SelectSeq(palette.colors, IsTextRole), Slice(palette.colors, 0, 2))

\* the background candidates if one test guarded both fallbacks
BackgroundsWhenEitherEmpty(palette) ==
  IF SelectSeq(palette.colors, IsTextRole) = <<>> \/ SelectSeq(palette.colors, IsBgRole) = <<>>
  THEN Slice(palette.colors, 2, Len(palette.colors))
  ELSE SelectSeq(palette.colors, IsBgRole)

Backgrounds(palette) ==
  OrElse(SelectSeq(palette.colors, IsBgRole),
         Slice(palette.colors, 2, Len(palette.colors)))

\* one entry of checks
Check(fg, bg) ==
  Then(wcag_contrast_ratio(fg.hex, bg.hex),
       LAMBDA ratio : Returned([fg         |-> [name |-> fg.name, hex |-> fg.hex],
                                bg         |-> [name |-> bg.name, hex |-> bg.hex],
                                ratio      |-> ratio,
                                grade      |-> wcag_grade(ratio),
                                aa_normal  |-> ratio >= 450,
                                aa_large   |-> ratio >= 300,
                                aaa_normal |-> ratio >= 700]))

\* the checks of every foreground against every background, in loop order
Checks(foregrounds, backgrounds) ==
  [k \in 1..(Len(foregrounds) * Len(backgrounds)) |->
     Check(foregrounds[((k - 1) \div Len(backgrounds)) + 1],
           backgrounds[((k - 1) % Len(backgrounds)) + 1])]

\* the returned dict; pass_rate is in tenths of a percent
Report(palette, checks, passed) ==
  [palette_id   |-> palette.id,
   palette_name |-> palette.name,
   checks       |-> checks,
   summary      |-> [total     |-> Len(checks),
                     pass_aa   |-> passed,
                     fail_aa   |-> Len(checks) - passed,
                     pass_rate |-> RRound(Rat(passed * 100, Max(1, Len(checks))), 10)]]

a11y_check(palette) ==
  Then(Collect(Checks(Foregrounds(palette), Backgrounds(palette))),
       LAMBDA checks :
         Returned(Report(palette, checks,
                         Cardinality({k \in 1..Len(checks) : checks[k].aa_normal}))))

(***************************************************************************)
(* Semantic colour suggestions and the CSS export.                         *)
(***************************************************************************)
SUCCESS == <<"s","u","c","c","e","s","s">>

WARNING == <<"w","a","r","n","i","n","g">>

ERROR == <<"e","r","r","o","r">>

INFO == <<"i","n","f","o">>

\* the keys of the returned dict with their hues, in insertion order
SEMANTIC_HUES == << <<SUCCESS, 120>>, <<WARNING, 38>>, <<ERROR, 4>>, <<INFO, 207>> >>

Tokens(tgt, adj) ==
  [i \in 1..Len(SEMANTIC_HUES) |->
     <<SEMANTIC_HUES[i][1], hls_hex(RInt(SEMANTIC_HUES[i][2]), tgt, adj)>>]

\* the dict of suggest_semantic, as its items in insertion order
suggest_semantic(palette) ==
  Then(HlsOf(palette.base_color),
       LAMBDA c : Returned(Tokens(RMax(<<7, 20>>, RMin(<<3, 5>>, c[2])),
                                  RMax(<<11, 20>>, c[3]))))

\* str(n) for any integer n
StrInt(n) == IF n < 0 THEN <<"-">> \o Str(0 - n) ELSE Str(n)

\* U+2013, one character
EN_DASH == "u2013"

NEWLINE == "\n"

ROOT_OPEN == <<":","r","o","o","t"," ","{">>

ROOT_CLOSE == <<"}">>

\* f"  --{name}: {value};"
Declaration(name, value) ==
  <<" ", " ", "-", "-">> \o name \o <<":", " ">> \o value \o <<";">>

\* the numeric stops of the tint/shade scale
nums == <<50, 100, 200, 300, 400, 500, 600, 700, 800, 900>>

\* zip(xs, ys): as long as the shorter
Zip(xs, ys) == [i \in 1..Min(Len(xs), Len(ys)) |-> <<xs[i], ys[i]>>]

\* the slug of a swatch name
Slug(name) == Replace(Lower(name), " ", "-")

\* the two declarations of one swatch
SwatchLines(sw, prefix) ==
  Then(hex_to_rgb(sw.hex),
       LAMBDA c :
         Returned(<<Declaration(prefix \o <<"-">> \o Slug(sw.name), sw.hex),
                    Declaration(prefix \o <<"-">> \o Slug(sw.name) \o <<"-","r","g","b">>,
                                StrInt(c[1]) \o <<",", " ">> \o StrInt(c[2])
                                \o <<",", " ">> \o StrInt(c[3]))>>))

RECURSIVE Flatten(_)
Flatten(ss) == IF ss = <<>> THEN <<>> ELSE Head(ss) \o Flatten(Tail(ss))

\* the declarations of a list of (key, value) pairs
Declarations(prefix, pairs) ==
  [i \in 1..Len(pairs) |-> Declaration(prefix \o <<"-">> \o pairs[i][1], pairs[i][2])]

\* f"{num}" for the first component of every pair
Formatted(pairs) == [i \in 1..Len(pairs) |-> <<Str(pairs[i][1]), pairs[i][2]>>]

\* the lines of the stylesheet, in the order the function appends them
Lines(palette, prefix, sws, scale, sem) ==
  <<ROOT_OPEN,
    <<" "," ","/","*"," ">> \o palette.name \o <<" ", EN_DASH, " ">> \o palette.harmony \o <<" ","*","/">>>>
  \o Flatten(sws)
  \o <<ROOT_CLOSE, <<>>,
       <<"/","*"," ">> \o palette.name \o <<" ","t","i","n","t","/","s","h","a","d","e"," ","s","c","a","l","e"," ","*","/">>,
       ROOT_OPEN>>
  \o Declarations(prefix, Formatted(Zip(nums, scale)))
  \o <<ROOT_CLOSE, <<>>,
       <<"/","*"," ","S","e","m","a","n","t","i","c"," ","t","o","k","e","n","s"," ","*","/">>,
       ROOT_OPEN>>
  \o Declarations(prefix, sem)
  \o <<ROOT_CLOSE>>

to_css_vars(palette, prefix) ==
  Then(Collect([i \in 1..Len(palette.colors) |-> SwatchLines(palette.colors[i], prefix)]),
       LAMBDA sws :
         Then(generate_tints_shades(palette.base_color, 9),
              LAMBDA scale :
                Then(suggest_semantic(palette),
                     LAMBDA sem :
                       Returned(Join(Lines(palette, prefix, sws, scale, sem), <<NEWLINE>>)))))

(***************************************************************************)
(* SQLite persistence.  The table palettes is the set of its rows; the     *)
(* column data holds the swatch dicts that json.dumps writes and           *)
(* json.loads reads back (strings and floats survive that round trip), the *)
(* column tags the comma-joined tags.  created_at is the time of creation  *)
(* as a number: ISO-8601 texts of one width compare as their times do.     *)
(***************************************************************************)
None == [none |-> TRUE]

Ids == 1..MaxIds

Times == 1..MaxTime

\* the row that save_palette binds to the INSERT
RowOf(palette) ==
  [id         |-> palette.id,
   name       |-> palette.name,
   base_color |-> palette.base_color,
   harmony    |-> palette.harmony,
   data       |-> palette.colors,
   tags       |-> Join(palette.tags, <<",">>),
   created_at |-> palette.created_at]

\* a plain INSERT into a table without the primary key
InsertOnly(db, palette) == db \cup {RowOf(palette)}

\* INSERT OR REPLACE: id is the primary key, so a row with the same id is
\* deleted before the new row is inserted
save_palette(db, palette) ==
  {r \in db : r.id # palette.id} \cup {RowOf(palette)}

\* SELECT ... WHERE id=?, fetchone, and the Palette rebuilt from the row;
\* description is not a column and takes its default
Rebuilt(row) ==
  Then(Collect([i \in 1..Len(row.data) |->
                  ColorSwatch(row.data[i].hex, row.data[i].name, row.data[i].role)]),
       LAMBDA colors :
         Returned(Palette(row.id, row.name, row.base_color, row.harmony, colors,
                          IF row.tags # <<>> THEN Split(row.tags, ",") ELSE <<>>,
                          row.created_at, <<>>)))

load_palette(db, palette_id) ==
  IF {r \in db : r.id = palette_id} = {} THEN Returned(None)
  ELSE Rebuilt(CHOOSE r \in db : r.id = palette_id)

\* one dict of list_palettes
Summary(r) ==
  [id |-> r.id, name |-> r.name, base_color |-> r.base_color,
   harmony |-> r.harmony, tags |-> r.tags, created_at |-> r.created_at]

\* the orders ORDER BY created_at DESC may return the rows in: SQL leaves
\* the order of rows with equal keys open
ListOrders(db) ==
  {q \in [1..Cardinality(db) -> db] :
     /\ \A i, j \in 1..Cardinality(db) : i # j => q[i] # q[j]
     /\ \A i \in 1..(Cardinality(db) - 1) : q[i].created_at >= q[i + 1].created_at}

list_palettes(db) ==
  {[i \in 1..Len(q) |-> Summary(q[i])] : q \in ListOrders(db)}

\* DELETE ... WHERE id=?: the table afterwards, and cur.rowcount > 0
delete_palette(db, palette_id) ==
  [db     |-> {r \in db : r.id # palette_id},
   result |-> Cardinality({r \in db : r.id = palette_id}) > 0]

(***************************************************************************)
(* Inputs.                                                                 *)
(***************************************************************************)
OCEAN == <<"O","c","e","a","n">>

RAINBOW == <<"r","a","i","n","b","o","w">>

PREFIX == <<"p","a","l","e","t","t","e">>

\* characters of an input string's body: a lower-case and an upper-case
\* hex digit and a letter that is no hex digit
BodyAlphabet == {"a", "F", "z"}

\* inputs outside that alphabet: digits, a sign or a space before a digit,
\* an underscore, a 0x prefix, a 5- and a 7-digit body
ExtraInputs ==
  { <<"#","3","b","8","2","f","6">>,
    <<"0","0","0">>,
    <<"#","0","0","F">>,
    <<"+","a","+","a","+","a">>,
    <<" ","a"," ","a"," ","a">>,
    <<"-","a","+","a"," ","a">>,
    <<"1","2","3","4","5">>,
    <<"1","2","3","4","5","6","7">>,
    <<"0","x","0","x","0","x">>,
    <<"a","_","a","_","a","_">> }

Inputs ==
  {[i \in 1..k |-> "#"] \o body : k \in 0..MaxHashes, body \in SeqsUpTo(BodyAlphabet, MaxLen)}
    \cup ExtraInputs

\* base colours handed to generate: bodies of an upper-case hex digit and a
\* letter that is no hex digit
BaseAlphabet == {"F", "z"}

BaseInputs ==
  {[i \in 1..k |-> "#"] \o body : k \in 0..MaxHashes, body \in SeqsUpTo(BaseAlphabet, MaxLen)}
    \cup ExtraInputs

HarmonyInputs == DOMAIN _HARMONY_ANGLES \cup {RAINBOW}

NameInputs == {<<>>, OCEAN}

\* colours passed to the scale and gradient generators
ColorInputs ==
  { <<"#","3","b","8","2","f","6">>, <<"#","0","0","0">>, <<"f","f","f","f","f","f">>, <<"#","F","0","a">>, <<"z","z","z">>, <<"1","2","3","4","5">>,
    <<"#","0","0","0","0","0","0">>, <<"#","f","f","8","0","0","1">> }

\* blend ratios: the multiples of 1/MaxSteps from -1 to 2
BlendRatios == {Rat(k, MaxSteps) : k \in (0 - MaxSteps)..(2 * MaxSteps)}

StepInputs == (0 - 2)..MaxSteps

\* the hex of the i-th swatch of a directly constructed palette
SwatchHexes ==
  << <<"#","0","0","0","0","0","0">>, <<"#","f","f","f","f","f","f">>, <<"#","7","7","7","7","7","7">>, <<"#","f","f","0","0","0","0">>, <<"#","3","b","8","2","f","6">>, <<"#","0","a","0">> >>

RoleInputs == {TEXT, PRIMARY, BACKGROUND, MUTED, QUATERNARY}

\* Palette(...) built directly from ColorSwatch(...) values with the given roles
Constructed(uid, roles, tags, now, description) ==
  Palette(uid, OCEAN, <<"#","3","b","8","2","f","6">>, TRIADIC,
          [i \in 1..Len(roles) |->
             ColorSwatch(SwatchHexes[i], <<"s">> \o Str(i), roles[i]).value],
          tags, now, description)

\* palettes that generate returns for a few bases
Generated(bases, uid, now) ==
  {generate(b, k, n, uid, now).value :
     b \in {x \in bases : generate(x, TRIADIC, <<>>, uid, now).status = "returned"},
     k \in DOMAIN _HARMONY_ANGLES, n \in NameInputs}

\* the palettes generate returns for the base colours it is handed
GeneratedPalettes == Generated(BaseInputs, 1, 1)

AuditPalettes ==
  GeneratedPalettes
    \cup {Constructed(1, roles, <<>>, 1, <<>>) : roles \in SeqsUpTo(RoleInputs, MaxSwatches)}

CssPalettes ==
  Generated({<<"#","3","b","8","2","f","6">>, <<"#","F","F","F">>}, 1, 1)
    \cup {Constructed(1, <<PRIMARY, BACKGROUND>>, <<>>, 1, <<>>)}

\* palettes handed to save_palette: one that generate returned, one with a
\* description, and one with a tag that holds a comma
StorePalettes ==
  UNION {{generate(<<"#","F","0","0">>, COMPLEMENTARY, <<>>, uid, now).value,
          Constructed(uid, <<PRIMARY>>, <<>>, now, <<"d">>),
          Constructed(uid, <<PRIMARY>>, <<<<"a", ",", "b">>>>, now, <<>>)} :
         uid \in Ids, now \in Times}

\* contrast ratios passed to wcag_grade, in hundredths
RatioInputs == 0..MaxRatio

PureCalls ==
  {[op |-> "hex_to_rgb", hex_color |-> x] : x \in Inputs}
    \cup {[op |-> "wcag_grade", ratio |-> x] : x \in RatioInputs}
    \cup {[op |-> "blend_colors", hex1 |-> x, hex2 |-> y, ratio |-> t] :
            x \in ColorInputs, y \in ColorInputs, t \in BlendRatios}
    \cup {[op |-> "generate", base_hex |-> x, harmony_type |-> k, name |-> n] :
            x \in BaseInputs, k \in HarmonyInputs, n \in NameInputs}
    \cup {[op |-> "generate_tints_shades", hex_color |-> x, steps |-> n] :
            x \in ColorInputs, n \in StepInputs}
    \cup {[op |-> "generate_gradient_stops", hex1 |-> x, hex2 |-> y, stops |-> n] :
            x \in ColorInputs, y \in ColorInputs, n \in StepInputs}
    \cup {[op |-> "a11y_check", palette |-> p] : p \in AuditPalettes}
    \cup {[op |-> "to_css_vars", palette |-> p, prefix |-> PREFIX] : p \in CssPalettes}

(***************************************************************************)
(* The store's operations.  lastOp records, for every id, the most recent  *)
(* put or delete on it and the palette that was put.                       *)
(***************************************************************************)
NoOps == [i \in Ids |-> [op |-> "none"]]

Init ==
  /\ store = {}
  /\ call = [op |-> "none"]
  /\ result = Returned(None)
  /\ lastOp = NoOps

SavePalette(p) ==
  /\ store' = save_palette(store, p)
  /\ call' = [op |-> "save_palette", palette |-> p, before |-> store]
  /\ result' = Returned(None)
  /\ lastOp' = [lastOp EXCEPT ![p.id] = [op |-> "put", palette |-> p]]

LoadPalette(id) ==
  /\ call' = [op |-> "load_palette", palette_id |-> id]
  /\ result' = load_palette(store, id)
  /\ UNCHANGED <<store, lastOp>>

ListPalettes ==
  /\ call' = [op |-> "list_palettes"]
  /\ \E rows \in list_palettes(store) : result' = Returned(rows)
  /\ UNCHANGED <<store, lastOp>>

DeletePalette(id) ==
  /\ store' = delete_palette(store, id).db
  /\ call' = [op |-> "delete_palette", palette_id |-> id, before |-> store]
  /\ result' = Returned(delete_palette(store, id).result)
  /\ lastOp' = [lastOp EXCEPT ![id] = [op |-> "delete"]]

Save == \E p \in StorePalettes : SavePalette(p)

Load == \E id \in Ids : LoadPalette(id)

Delete == \E id \in Ids : DeletePalette(id)

Next == Save \/ Load \/ ListPalettes \/ Delete

Spec == Init /\ [][Next]_vars

(***************************************************************************)
(* The pure functions, each applied to an input drawn at the start.        *)
(***************************************************************************)
InitPure ==
  /\ store = {}
  /\ call \in PureCalls
  /\ result = Pending
  /\ lastOp = NoOps

Apply(op, outcome) ==
  /\ result = Pending
  /\ call.op = op
  /\ result' = outcome
  /\ UNCHANGED <<store, call, lastOp>>

HexToRgb == Apply("hex_to_rgb", hex_to_rgb(call.hex_color))

Generate ==
  \E uid \in Ids, now \in Times :
    Apply("generate", generate(call.base_hex, call.harmony_type, call.name, uid, now))

TintsShades ==
  Apply("generate_tints_shades", generate_tints_shades(call.hex_color, call.steps))

GradientStops ==
  Apply("generate_gradient_stops", generate_gradient_stops(call.hex1, call.hex2, call.stops))

A11yCheck == Apply("a11y_check", a11y_check(call.palette))

ToCssVars == Apply("to_css_vars", to_css_vars(call.palette, call.prefix))

WcagGrade == Apply("wcag_grade", Returned(wcag_grade(call.ratio)))

BlendColors == Apply("blend_colors", blend_colors(call.hex1, call.hex2, call.ratio))

NextPure ==
  HexToRgb \/ Generate \/ TintsShades \/ GradientStops \/ A11yCheck \/ ToCssVars
    \/ WcagGrade \/ BlendColors

SpecPure == InitPure /\ [][NextPure]_vars

(***************************************************************************)
(* Vocabulary of the properties.                                           *)
(***************************************************************************)
\* the call of op has been applied
Done(op) == call.op = op /\ result # Pending

\* the cleaned string: the leading '#' characters removed
Cleaned(x) == LStrip(x, {"#"})

\* exactly 3 or exactly 6 hex digits after cleaning
WellFormed(x) ==
  /\ Len(Cleaned(x)) \in {3, 6}
  /\ \A i \in 1..Len(Cleaned(x)) : Cleaned(x)[i] \in HexChars

\* the six enumerated harmony schemes
SixKinds == {COMPLEMENTARY, TRIADIC, ANALOGOUS, MONOCHROMATIC, SPLIT_COMPLEMENTARY, TETRADIC}

RolesOf(colors) == [i \in 1..Len(colors) |-> colors[i].role]

NamesDistinct(colors) ==
  \A i, j \in 1..Len(colors) : i # j => colors[i].name # colors[j].name

StartsWith(line, start) ==
  Len(line) >= Len(start) /\ SubSeq(line, 1, Len(start)) = start

\* '#' followed by exactly 6 lowercase hex digits
Normalized(c) ==
  Len(c) = 7 /\ c[1] = "#" /\ \A i \in 2..7 : c[i] \in Range(HexDigits)

(***************************************************************************)
(* C1.  hex_to_rgb fails for every input whose cleaned string is not       *)
(* exactly 3 or exactly 6 hex digits, and returns a triple only for        *)
(* cleaned strings of exactly 3 or 6 hex digits.                           *)
(***************************************************************************)
C1_ParseHexRejectsMalformed ==
  Done("hex_to_rgb") => (result.status = "returned" <=> WellFormed(call.hex_color))

(***************************************************************************)
(* C2.  generate fails with a validation error (ValueError) whenever the   *)
(* base is not 3 or 6 hex digits or the kind is not one of the six         *)
(* schemes, succeeds only when both are valid, and leaves the store as it  *)
(* was.                                                                    *)
(***************************************************************************)
C2_GenerateValidates ==
  [][(call.op = "generate" /\ result = Pending) =>
       /\ store' = store
       /\ result'.status = "returned" <=>
            (WellFormed(call.base_hex) /\ call.harmony_type \in SixKinds)
       /\ result'.status = "raised" => result'.exc = "ValueError"]_vars

(***************************************************************************)
(* C3.  For a valid base colour and a valid kind generate returns: for a   *)
(* kind with k angles, k + 2 swatches whose roles are the first k of       *)
(* primary, secondary, accent, quaternary, then background and text; for   *)
(* monochromatic, 5 swatches with roles background, surface, primary,      *)
(* secondary, text; and the swatch names are pairwise distinct.            *)
(***************************************************************************)
C3_GenerateRoles ==
  (Done("generate") /\ WellFormed(call.base_hex) /\ call.harmony_type \in SixKinds) =>
    /\ result.status = "returned"
    /\ RolesOf(result.value.colors) =
         IF call.harmony_type = MONOCHROMATIC
         THEN <<BACKGROUND, SURFACE, PRIMARY, SECONDARY, TEXT>>
         ELSE SubSeq(<<PRIMARY, SECONDARY, ACCENT, QUATERNARY>>, 1,
                     Len(_HARMONY_ANGLES[call.harmony_type]))
              \o <<BACKGROUND, TEXT>>
    /\ NamesDistinct(result.value.colors)

\* generate("#3b82f6", "complementary", "Ocean") has returned its 4 swatches
C3_Witness ==
  /\ Done("generate")
  /\ call.base_hex = <<"#","3","b","8","2","f","6">>
  /\ call.harmony_type = COMPLEMENTARY
  /\ call.name = OCEAN
  /\ result.status = "returned"
  /\ RolesOf(result.value.colors) = <<PRIMARY, SECONDARY, BACKGROUND, TEXT>>

(***************************************************************************)
(* C4.  A get of an id whose most recent put or delete was put(p) returns  *)
(* a Palette equal to p in id, name, base colour, harmony, the swatches'   *)
(* (hex, name, role), tags, creation time and description.                 *)
(***************************************************************************)
SameFields(p, q) ==
  /\ p.id = q.id
  /\ p.name = q.name
  /\ p.base_color = q.base_color
  /\ p.harmony = q.harmony
  /\ Len(p.colors) = Len(q.colors)
  /\ \A i \in 1..Len(p.colors) :
       /\ p.colors[i].hex = q.colors[i].hex
       /\ p.colors[i].name = q.colors[i].name
       /\ p.colors[i].role = q.colors[i].role
  /\ p.tags = q.tags
  /\ p.created_at = q.created_at
  /\ p.description = q.description

C4_StoreKeepsFullPalette ==
  (call.op = "load_palette" /\ lastOp[call.palette_id].op = "put") =>
    /\ result.status = "returned"
    /\ result.value # None
    /\ SameFields(result.value, lastOp[call.palette_id].palette)

(***************************************************************************)
(* C5.  An id is present (one row; get is not absent; list holds exactly   *)
(* one summary for it) exactly when the most recent put or delete on it    *)
(* was a put; a put leaves exactly the put palette's row under its id and  *)
(* the other ids' rows as they were; delete returns whether the id was     *)
(* present before, leaves it absent and the other ids' rows as they were.  *)
(***************************************************************************)
RowsOf(db, id) == {r \in db : r.id = id}

Others(db, id) == {r \in db : r.id # id}

Expected(id) == IF lastOp[id].op = "put" THEN 1 ELSE 0

C5_PresenceFollowsLastOp ==
  /\ \A id \in Ids : Cardinality(RowsOf(store, id)) = Expected(id)
  /\ call.op = "load_palette" =>
       /\ result.status = "returned"
       /\ (result.value # None) <=> (lastOp[call.palette_id].op = "put")
  /\ call.op = "list_palettes" =>
       \A id \in Ids :
         Cardinality({i \in 1..Len(result.value) : result.value[i].id = id}) = Expected(id)
  /\ call.op = "save_palette" =>
       /\ RowsOf(store, call.palette.id) = {RowOf(call.palette)}
       /\ Others(store, call.palette.id) = Others(call.before, call.palette.id)
  /\ call.op = "delete_palette" =>
       /\ result.value = (RowsOf(call.before, call.palette_id) # {})
       /\ RowsOf(store, call.palette_id) = {}
       /\ Others(store, call.palette_id) = Others(call.before, call.palette_id)

\* a put on an id that held a different row, beside another id's row
C5_Witness ==
  /\ call.op = "save_palette"
  /\ RowsOf(call.before, call.palette.id) # {}
  /\ RowsOf(call.before, call.palette.id) # {RowOf(call.palette)}
  /\ Others(store, call.palette.id) # {}

(***************************************************************************)
(* C6.  generate_tints_shades and generate_gradient_stops fail for every   *)
(* step count below 2 and return exactly n colours for every n >= 2 (of    *)
(* colours that parse).                                                    *)
(***************************************************************************)
Steps == IF call.op = "generate_tints_shades" THEN call.steps ELSE call.stops

Parses ==
  IF call.op = "generate_tints_shades"
  THEN hex_to_rgb(call.hex_color).status = "returned"
  ELSE hex_to_rgb(call.hex1).status = "returned" /\ hex_to_rgb(call.hex2).status = "returned"

C6_StepsBelowTwoFail ==
  (Done("generate_tints_shades") \/ Done("generate_gradient_stops")) =>
    IF Steps < 2 THEN result.status = "raised"
    ELSE Parses => (result.status = "returned" /\ Len(result.value) = Steps)

(***************************************************************************)
(* C7.  The checks of a11y_check are the cross product of the foreground   *)
(* and background candidates.  As written: when either partition by role   *)
(* is empty, the first two swatches are the foreground and the swatches    *)
(* from index 2 onward the background.  As the code has it: an empty       *)
(* foreground partition is replaced by the first two swatches and,         *)
(* separately, an empty background partition by the swatches from index 2  *)
(* onward.                                                                 *)
(***************************************************************************)
HasForegroundRole(s) == s.role \in {TEXT, PRIMARY, SECONDARY, ACCENT}

HasBackgroundRole(s) == s.role \in {BACKGROUND, SURFACE, MUTED}

Ident(s) == [name |-> s.name, hex |-> s.hex]

\* the audit's report is the cross product of fg and bg, one check per pair
IsCrossProduct(report, fg, bg) ==
  /\ Len(report.checks) = Len(fg) * Len(bg)
  /\ report.summary.total = Len(fg) * Len(bg)
  /\ {<<report.checks[k].fg, report.checks[k].bg>> : k \in 1..Len(report.checks)}
       = {<<Ident(fg[i]), Ident(bg[j])>> : i \in 1..Len(fg), j \in 1..Len(bg)}
  /\ \A k, m \in 1..Len(report.checks) :
       k # m => <<report.checks[k].fg, report.checks[k].bg>>
                  # <<report.checks[m].fg, report.checks[m].bg>>

Audited == Done("a11y_check") /\ result.status = "returned"

\* each fallback replaces its own partition only
C7_AuditFallbacksSeparate ==
  Audited =>
    LET colors == call.palette.colors
        fgSel  == SelectSeq(colors, HasForegroundRole)
        bgSel  == SelectSeq(colors, HasBackgroundRole)
    IN  IsCrossProduct(result.value,
                       IF fgSel = <<>> THEN Slice(colors, 0, 2) ELSE fgSel,
                       IF bgSel = <<>> THEN Slice(colors, 2, Len(colors)) ELSE bgSel)

\* one empty partition replaces both
C7_AuditFallbackJoint ==
  Audited =>
    LET colors == call.palette.colors
        fgSel  == SelectSeq(colors, HasForegroundRole)
        bgSel  == SelectSeq(colors, HasBackgroundRole)
        either == fgSel = <<>> \/ bgSel = <<>>
    IN  IsCrossProduct(result.value,
                       IF either THEN Slice(colors, 0, 2) ELSE fgSel,
                       IF either THEN Slice(colors, 2, Len(colors)) ELSE bgSel)

\* an audit of three swatches, none with a foreground role and at least two
\* with a background role, has reported its 4 checks
C7_Witness ==
  /\ Audited
  /\ Len(call.palette.colors) = 3
  /\ SelectSeq(call.palette.colors, HasForegroundRole) = <<>>
  /\ Len(SelectSeq(call.palette.colors, HasBackgroundRole)) = 2
  /\ result.value.summary.total = 4

(***************************************************************************)
(* C8.  The CSS export holds a declaration for each of the 10 stops 50,    *)
(* 100, 200, ..., 900, a hex and an R,G,B declaration for every swatch,    *)
(* and a declaration for each of the four semantic tokens.                 *)
(***************************************************************************)
Declares(css, prefix, key) ==
  \E line \in Range(Split(css, NEWLINE)) :
    StartsWith(line, <<" ", " ", "-", "-">> \o prefix \o <<"-">> \o key \o <<":">>)

C8_CssDeclaresTenStops ==
  (Done("to_css_vars") /\ result.status = "returned") =>
    /\ \A n \in {50, 100, 200, 300, 400, 500, 600, 700, 800, 900} :
         Declares(result.value, call.prefix, Str(n))
    /\ \A i \in 1..Len(call.palette.colors) :
         /\ Declares(result.value, call.prefix, Slug(call.palette.colors[i].name))
         /\ Declares(result.value, call.prefix,
                     Slug(call.palette.colors[i].name) \o <<"-","r","g","b">>)
    /\ \A token \in {SUCCESS, WARNING, ERROR, INFO} :
         Declares(result.value, call.prefix, token)

(***************************************************************************)
(* C9.  For every accepted spelling of the base colour, the base colour    *)
(* and every swatch hex of the Palette generate returns are '#' followed   *)
(* by exactly 6 lowercase hex digits.                                      *)
(***************************************************************************)
C9_GeneratedColorsNormalized ==
  (Done("generate") /\ WellFormed(call.base_hex) /\ result.status = "returned") =>
    /\ Normalized(result.value.base_color)
    /\ \A i \in 1..Len(result.value.colors) : Normalized(result.value.colors[i].hex)

(***************************************************************************)
(* C11.  wcag_grade is AAA exactly for ratios >= 7.0, AA for 4.5 <= ratio  *)
(* < 7.0, AA-Large for 3.0 <= ratio < 4.5 and Fail below 3.0; in every     *)
(* check of an audit aaa_normal holds exactly when the grade is AAA,       *)
(* aa_normal when it is AAA or AA, aa_large when it is not Fail; pass_aa   *)
(* counts the checks with aa_normal and pass_aa + fail_aa = total.         *)
(***************************************************************************)
FlagsAgree(check) ==
  /\ check.aaa_normal <=> check.grade = "AAA"
  /\ check.aa_normal <=> check.grade \in {"AAA", "AA"}
  /\ check.aa_large <=> check.grade # "Fail"

C11_GradesAndFlags ==
  /\ Done("wcag_grade") =>
       /\ result.value = "AAA" <=> call.ratio >= 700
       /\ result.value = "AA" <=> (450 <= call.ratio /\ call.ratio < 700)
       /\ result.value = "AA-Large" <=> (300 <= call.ratio /\ call.ratio < 450)
       /\ result.value = "Fail" <=> call.ratio < 300
  /\ Audited =>
       /\ \A k \in 1..Len(result.value.checks) : FlagsAgree(result.value.checks[k])
       /\ result.value.summary.pass_aa =
            Cardinality({k \in 1..Len(result.value.checks) : result.value.checks[k].aa_normal})
       /\ result.value.summary.pass_aa + result.value.summary.fail_aa
            = result.value.summary.total

\* an audit has reported checks of which some pass AA and some fail it,
\* one of them graded AA-Large
C11_Witness ==
  /\ Audited
  /\ result.value.summary.pass_aa >= 1
  /\ result.value.summary.fail_aa >= 1
  /\ \E k \in 1..Len(result.value.checks) : result.value.checks[k].grade = "AA-Large"

(***************************************************************************)
(* C12.  For normalized colours a and b, blend_colors(a, b, ratio) is a    *)
(* for every ratio <= 0 and b for every ratio >= 1, and each channel of a  *)
(* blend lies between the channels of a and b; for stops >= 2 the first    *)
(* gradient stop is a and the last is b.                                   *)
(***************************************************************************)
Between(x, lo, hi) == Min(lo, hi) <= x /\ x <= Max(lo, hi)

ChannelsBetween(c, a, b) == \A i \in 1..3 : Between(c[i], a[i], b[i])

BothNormalized == Normalized(call.hex1) /\ Normalized(call.hex2)

C12_BlendEndpoints ==
  /\ (Done("blend_colors") /\ BothNormalized) =>
       /\ result.status = "returned"
       /\ RLe(call.ratio, RInt(0)) => result.value = call.hex1
       /\ RLe(RInt(1), call.ratio) => result.value = call.hex2
       /\ ChannelsBetween(hex_to_rgb(result.value).value,
                          hex_to_rgb(call.hex1).value, hex_to_rgb(call.hex2).value)
  /\ (Done("generate_gradient_stops") /\ BothNormalized /\ call.stops >= 2) =>
       /\ result.status = "returned"
       /\ Len(result.value) = call.stops
       /\ result.value[1] = call.hex1
       /\ result.value[call.stops] = call.hex2

\* a blend of two different normalized colours at a ratio above 1 has
\* returned the second colour
C12_Witness ==
  /\ Done("blend_colors")
  /\ BothNormalized
  /\ call.hex1 # call.hex2
  /\ RLt(RInt(1), call.ratio)
  /\ result = Returned(call.hex2)

(***************************************************************************)
(* C13.  Every Palette generate returns has a swatch with a foreground     *)
(* role and a swatch with a background role, so an audit of it takes no    *)
(* positional fallback (its checks are the cross product of the two role   *)
(* partitions) and reports at least one check.                             *)
(***************************************************************************)
HasBothPartitions(colors) ==
  /\ \E i \in 1..Len(colors) : HasForegroundRole(colors[i])
  /\ \E i \in 1..Len(colors) : HasBackgroundRole(colors[i])

C13_GeneratedPalettesAuditable ==
  /\ (Done("generate") /\ result.status = "returned") =>
       HasBothPartitions(result.value.colors)
  /\ (Done("a11y_check") /\ call.palette \in GeneratedPalettes) =>
       /\ result.status = "returned"
       /\ HasBothPartitions(call.palette.colors)
       /\ IsCrossProduct(result.value,
                         SelectSeq(call.palette.colors, HasForegroundRole),
                         SelectSeq(call.palette.colors, HasBackgroundRole))
       /\ result.value.summary.total >= 1

\* the audit of a monochromatic palette that generate returned has reported
\* its 3 x 2 checks
C13_Witness ==
  /\ Audited
  /\ call.palette \in GeneratedPalettes
  /\ call.palette.harmony = MONOCHROMATIC
  /\ result.value.summary.total = 6

\* an audit without checks and with pass_rate 0: only of a palette that
\* generate did not return
C13_EmptyAudit ==
  /\ Audited
  /\ result.value.summary.total = 0
  /\ result.value.summary.pass_rate = 0

====
